---- MODULE Spec2Model ----
(***************************************************************************)
(* A model of bank_statement_parser.py: the text cache of BaseFileParser / *)
(* PdfParser (read_cache, write_cache, delete_cache, get_text) and the     *)
(* fallback pipeline and month aggregation of run_parsers.                 *)
(*                                                                         *)
(* Python values are modelled as follows.  A str is a sequence of          *)
(* one-character strings.  An Optional value is a sequence of length 0     *)
(* (None, or "no such file") or 1 (the value).  An exception is the name   *)
(* of its kind: "ValueError" for ValueError and its subclasses, "Error"    *)
(* for every other kind, "" for a normal return.                           *)
(***************************************************************************)
EXTENDS Integers, Sequences, FiniteSets, Bags, TLC

\* Bounds of the model.
MaxDocs == 2
MaxParsers == 2
MaxClock == 1

\* ---------------------------------------------------------------- values

CR == "\r"
LF == "\n"

Nothing == << >>
Some(v) == << v >>

\* run_parsers has raised nothing.
NoError == [kind |-> "", msg |-> "", path |-> Nothing]

\* The texts a converter (to_text) may produce: empty, plain, and one with
\* a CR LF pair and a lone carriage return.
Texts == { << >>, << "a" >>, << CR, LF, CR >> }

\* What a call of to_text may do: return a text or raise.
ToTextOutcomes ==
    [kind : {"ok"}, text : Texts]
        \cup { [kind |-> "ValueError", text |-> << >>],
               [kind |-> "Error", text |-> << >>] }

\* A document is a path: its stem and its suffix (all in one directory).
Docs == { [stem |-> "a", suffix |-> ".pdf"],
          [stem |-> "b", suffix |-> ".pdf"] }

\* cached_text_file = file_path.parent / (file_path.stem + '.txt')
cached_text_file(file_path) == file_path.stem

CacheFiles == { cached_text_file(d) : d \in Docs }

\* The parser classes: a direct subclass of BaseFileParser (the cache hooks
\* of the base class do nothing), a subclass of PdfParser, PdfTestParser.
ParserKinds == { "BaseFileParser", "PdfParser", "PdfTestParser" }

\* ------------------------------------------------------------ the state

VARIABLES
    cache,            \* the file system: cache file -> Nothing or Some([text, mtime])
    docMtime,         \* the file system: document -> modification time
    clock,            \* the file system's time
    last,             \* the last operation called on a parser (cache specification)
    statement_paths,  \* run_parsers: argument
    parsers,          \* run_parsers: argument (the class of each parser)
    arg_use_cache,    \* run_parsers: argument use_cache
    arg_clear_cache,  \* run_parsers: argument clear_cache
    only_text,        \* run_parsers: argument
    argv,             \* main: the parsed command line, if main made the call
    pc,               \* run_parsers: position
    docIdx,           \* run_parsers: index of pdf_path in statement_paths
    parserIdx,        \* run_parsers: index of parser in parsers
    found_parser,     \* run_parsers: local
    all_transactions, \* run_parsers: local
    month_groups,     \* run_parsers: local, a dict in insertion order
    writeIdx,         \* run_parsers: index into month_groups.items()
    output,           \* the file system: month key -> the records of <key>-transactions.json
    raised,           \* the exception run_parsers ended with, if any
    calls,            \* history: the parser calls of the last round of the parser loop
    to_text_calls,    \* history: how often that round called the parser's to_text
    triedDoc,         \* history: the index of the document of the last round
    tried,            \* history: the parsers asked for text for that document, in order
    matched,          \* history: the first parser that returned transactions for it, or 0
    committed         \* history: what to_transactions returned, per matched document

runVars == << statement_paths, parsers, arg_use_cache, arg_clear_cache, only_text,
              argv, pc, docIdx, parserIdx, found_parser, all_transactions, month_groups,
              writeIdx, output, raised, calls, to_text_calls, triedDoc, tried,
              matched, committed >>
vars == << cache, docMtime, clock, last, statement_paths, parsers, arg_use_cache,
           arg_clear_cache, only_text, argv, pc, docIdx, parserIdx, found_parser,
           all_transactions, month_groups, writeIdx, output, raised, calls,
           to_text_calls, triedDoc, tried, matched, committed >>

\* ------------------------------------------------------- the text cache

\* Path.read_text(): the file is opened in text mode with universal
\* newlines, so every CR LF pair and every lone CR is read as LF.
RECURSIVE read_text(_)
read_text(raw) ==
    IF raw = << >> THEN << >>
    ELSE IF Head(raw) = CR
         THEN << LF >> \o read_text(IF Len(raw) >= 2 /\ raw[2] = LF
                                    THEN SubSeq(raw, 3, Len(raw))
                                    ELSE Tail(raw))
         ELSE << Head(raw) >> \o read_text(Tail(raw))

\* Path.write_text(text) on a POSIX system: LF is written as LF, the other
\* characters as they are; the file's mtime becomes the current time.
write_text(text, now) == [text |-> text, mtime |-> now]

HasCache(kind) == kind # "BaseFileParser"

\* BaseFileParser.read_cache (pass: returns None) and PdfParser.read_cache.
read_cache(kind, fs, file_path) ==
    IF ~HasCache(kind) THEN Nothing
    ELSE IF fs[cached_text_file(file_path)] # Nothing
         THEN Some(read_text(fs[cached_text_file(file_path)][1].text))
         ELSE Nothing

\* BaseFileParser.write_cache (pass) and PdfParser.write_cache.
write_cache(kind, fs, file_path, text, now) ==
    IF ~HasCache(kind) THEN fs
    ELSE [fs EXCEPT ![cached_text_file(file_path)] = Some(write_text(text, now))]

\* BaseFileParser.delete_cache (pass) and PdfParser.delete_cache
\* (unlink(missing_ok=True)).
delete_cache(kind, fs, file_path) ==
    IF ~HasCache(kind) THEN fs
    ELSE [fs EXCEPT ![cached_text_file(file_path)] = Nothing]

\* get_text writing the cache also when the text is empty.
get_text_writes_empty(kind, fs, file_path, use_cache, clear_cache, conv, now) ==
    LET fs1 == IF clear_cache THEN delete_cache(kind, fs, file_path) ELSE fs
        rd == IF use_cache /\ ~clear_cache
              THEN read_cache(kind, fs1, file_path) ELSE Nothing
        from_cache == rd # Nothing
        fails == ~from_cache /\ conv.kind # "ok"
        text == IF from_cache THEN rd[1] ELSE conv.text
        writes == ~fails /\ ~from_cache /\ use_cache
    IN  [ fs |-> IF writes THEN write_cache(kind, fs1, file_path, text, now) ELSE fs1,
          raised |-> IF fails THEN conv.kind ELSE "",
          text |-> IF fails THEN << >> ELSE text,
          to_text_calls |-> IF from_cache THEN 0 ELSE 1,
          from_cache |-> from_cache,
          write_calls |-> IF writes THEN 1 ELSE 0 ]

\* get_text with its clear_cache parameter ignored.
get_text_no_clear(kind, fs, file_path, use_cache, clear_cache, conv, now) ==
    LET rd == IF use_cache THEN read_cache(kind, fs, file_path) ELSE Nothing
        from_cache == rd # Nothing
        fails == ~from_cache /\ conv.kind # "ok"
        text == IF from_cache THEN rd[1] ELSE conv.text
        writes == ~fails /\ text # << >> /\ ~from_cache /\ use_cache
    IN  [ fs |-> IF writes THEN write_cache(kind, fs, file_path, text, now) ELSE fs,
          raised |-> IF fails THEN conv.kind ELSE "",
          text |-> IF fails THEN << >> ELSE text,
          to_text_calls |-> IF from_cache THEN 0 ELSE 1,
          from_cache |-> from_cache,
          write_calls |-> IF writes THEN 1 ELSE 0 ]

\* BaseFileParser.get_text.  conv is what to_text does if it is called.  The
\* result holds the file system after the call, the exception raised ("" if
\* none), the text returned, and how often to_text and write_cache ran.
get_text(kind, fs, file_path, use_cache, clear_cache, conv, now) ==
    LET fs1 == IF clear_cache THEN delete_cache(kind, fs, file_path) ELSE fs
        rd == IF use_cache /\ ~clear_cache
              THEN read_cache(kind, fs1, file_path) ELSE Nothing
        from_cache == rd # Nothing
        fails == ~from_cache /\ conv.kind # "ok"
        text == IF from_cache THEN rd[1] ELSE conv.text
        writes == ~fails /\ text # << >> /\ ~from_cache /\ use_cache
    IN  [ fs |-> IF writes THEN write_cache(kind, fs1, file_path, text, now) ELSE fs1,
          raised |-> IF fails THEN conv.kind ELSE "",
          text |-> IF fails THEN << >> ELSE text,
          to_text_calls |-> IF from_cache THEN 0 ELSE 1,
          from_cache |-> from_cache,
          write_calls |-> IF writes THEN 1 ELSE 0 ]

\* Whether the cache file of a document is older than the document.
Stale(fs, mt, file_path) ==
    /\ fs[cached_text_file(file_path)] # Nothing
    /\ mt[file_path] > fs[cached_text_file(file_path)][1].mtime

\* The record of a get_text call: its arguments, the cache file as it was
\* before the call (prior, stale) and what the call did.  A delete_cache
\* call is recorded with its parser and document.  NoOp: the last operation
\* was neither.
NoOp ==
    [ op |-> "none", kind |-> "BaseFileParser", doc |-> CHOOSE d \in Docs : TRUE,
      use_cache |-> FALSE, clear_cache |-> FALSE, prior |-> Nothing,
      stale |-> FALSE, raised |-> "", text |-> << >>, to_text_calls |-> 0,
      from_cache |-> FALSE, write_calls |-> 0 ]

\* ------------------------------------- the cache specification's actions

\* The run_parsers variables of a state in which no run is in progress.
NoRun ==
    /\ statement_paths = << >>
    /\ parsers = << >>
    /\ arg_use_cache = TRUE
    /\ arg_clear_cache = FALSE
    /\ only_text = FALSE
    /\ argv = Nothing
    /\ pc = "idle"
    /\ docIdx = 1
    /\ parserIdx = 1
    /\ found_parser = FALSE
    /\ all_transactions = << >>
    /\ month_groups = << >>
    /\ writeIdx = 1
    /\ output = << >>
    /\ raised = NoError
    /\ calls = << >>
    /\ to_text_calls = 0
    /\ triedDoc = 0
    /\ tried = << >>
    /\ matched = 0
    /\ committed = << >>

\* A fresh directory: no cache file, every document as old as the clock.
InitFs ==
    /\ cache = [f \in CacheFiles |-> Nothing]
    /\ docMtime = [d \in Docs |-> 0]
    /\ clock = 0

InitCache == InitFs /\ NoRun /\ last = NoOp

PriorText(fs, file_path) ==
    IF fs[cached_text_file(file_path)] = Nothing THEN Nothing
    ELSE Some(fs[cached_text_file(file_path)][1].text)

\* parser.write_cache(file_path, text)
CallWriteCache(kind, d, t) ==
    /\ cache' = write_cache(kind, cache, d, t, clock)
    /\ last' = NoOp
    /\ UNCHANGED << docMtime, clock >>
    /\ UNCHANGED runVars

\* parser.delete_cache(file_path)
CallDeleteCache(kind, d) ==
    /\ cache' = delete_cache(kind, cache, d)
    /\ last' = [NoOp EXCEPT !.op = "delete_cache", !.kind = kind, !.doc = d]
    /\ UNCHANGED << docMtime, clock >>
    /\ UNCHANGED runVars

\* parser.get_text(file_path, use_cache, clear_cache)
CallGetText(kind, d, use_cache, clear_cache, conv) ==
    LET r == get_text(kind, cache, d, use_cache, clear_cache, conv, clock)
    IN  /\ cache' = r.fs
        /\ last' = [ op |-> "get_text", kind |-> kind, doc |-> d,
                     use_cache |-> use_cache, clear_cache |-> clear_cache,
                     prior |-> PriorText(cache, d),
                     stale |-> Stale(cache, docMtime, d),
                     raised |-> r.raised, text |-> r.text,
                     to_text_calls |-> r.to_text_calls,
                     from_cache |-> r.from_cache,
                     write_calls |-> r.write_calls ]
        /\ UNCHANGED << docMtime, clock >>
        /\ UNCHANGED runVars

\* The environment rewrites a document: its mtime advances.
TouchDocument(d) ==
    /\ clock < MaxClock
    /\ clock' = clock + 1
    /\ docMtime' = [docMtime EXCEPT ![d] = clock + 1]
    /\ last' = NoOp
    /\ UNCHANGED cache
    /\ UNCHANGED runVars

\* The classes whose cache hooks differ: PdfTestParser inherits PdfParser's.
CacheKinds == { "BaseFileParser", "PdfParser" }

NextCache ==
    \/ \E kind \in CacheKinds, d \in Docs, t \in Texts : CallWriteCache(kind, d, t)
    \/ \E kind \in CacheKinds, d \in Docs : CallDeleteCache(kind, d)
    \/ \E kind \in CacheKinds, d \in Docs, u \in BOOLEAN, c \in BOOLEAN,
          conv \in ToTextOutcomes : CallGetText(kind, d, u, c, conv)
    \/ \E d \in Docs : TouchDocument(d)

SpecCache == InitCache /\ [][NextCache]_vars

\* Documents of one directory, two of which differ in their suffix only:
\* Path.stem drops the last suffix, so a.pdf and a.PDF have the cache file
\* a.txt.
StemDocs == Docs \cup { [stem |-> "a", suffix |-> ".PDF"] }

InitStems ==
    /\ cache = [f \in CacheFiles |-> Nothing]
    /\ docMtime = [d \in StemDocs |-> 0]
    /\ clock = 0
    /\ NoRun
    /\ last = NoOp

\* The cache hooks and get_text called for the documents of the directory.
NextStems ==
    \/ \E kind \in CacheKinds, d \in StemDocs, t \in Texts : CallWriteCache(kind, d, t)
    \/ \E kind \in CacheKinds, d \in StemDocs : CallDeleteCache(kind, d)
    \/ \E kind \in CacheKinds, d \in StemDocs, u \in BOOLEAN, c \in BOOLEAN,
          conv \in ToTextOutcomes : CallGetText(kind, d, u, c, conv)

SpecStems == InitStems /\ [][NextStems]_vars

\* ------------------------------------------------------- transactions

\* The dates the parsers emit: three ISO dates and one that is not ISO
\* ("2023-4-1", eight characters).
D_2023_04_01 == << "2", "0", "2", "3", "-", "0", "4", "-", "0", "1" >>
D_2023_04_15 == << "2", "0", "2", "3", "-", "0", "4", "-", "1", "5" >>
D_2023_05_02 == << "2", "0", "2", "3", "-", "0", "5", "-", "0", "2" >>
D_2023_4_1 == << "2", "0", "2", "3", "-", "4", "-", "1" >>

\* A transaction is a dict with a date and other fields the core never reads.
Txn(date, amount) == [date |-> date, amount |-> amount]

\* What to_transactions may return: nothing, a statement whose records are
\* out of date order and span two months, a statement with a record that
\* also occurs in the other one and a record whose date is not ISO.
Statement1 == << Txn(D_2023_04_15, "20.00"), Txn(D_2023_04_01, "10.00"),
                 Txn(D_2023_05_02, "30.00") >>
Statement2 == << Txn(D_2023_04_01, "10.00"), Txn(D_2023_4_1, "40.00") >>
TxResults == { << >>, Statement1, Statement2 }

\* What a call of to_transactions may do.  PdfTestParser.to_transactions
\* always raises ValueError; the other classes are subclasses written by
\* the user, which return records or raise.
ToTransactionsOutcomes(kind) ==
    IF kind = "PdfTestParser"
    THEN { [kind |-> "ValueError", txs |-> << >>] }
    ELSE [kind : {"ok"}, txs : TxResults]
            \cup { [kind |-> "ValueError", txs |-> << >>],
                   [kind |-> "Error", txs |-> << >>] }

\* ord() of the characters of a date.
Ord(c) ==
    CASE c = "-" -> 45
      [] c = "0" -> 48
      [] c = "1" -> 49
      [] c = "2" -> 50
      [] c = "3" -> 51
      [] c = "4" -> 52
      [] c = "5" -> 53

\* a <= b for Python strings: lexicographic by code point.
RECURSIVE StrLeq(_, _)
StrLeq(a, b) ==
    IF a = << >> THEN TRUE
    ELSE IF b = << >> THEN FALSE
    ELSE IF Head(a) = Head(b) THEN StrLeq(Tail(a), Tail(b))
    ELSE Ord(Head(a)) < Ord(Head(b))

\* The number of characters t['date'][:-3] removes.
DayChars == 3

\* key = t['date'][:-3]
month_key(t) ==
    IF Len(t.date) <= DayChars THEN << >>
    ELSE SubSeq(t.date, 1, Len(t.date) - DayChars)

IndexOfKey(groups, key) ==
    IF \E i \in 1..Len(groups) : groups[i].key = key
    THEN CHOOSE i \in 1..Len(groups) : groups[i].key = key
    ELSE 0

\* A group_transaction that replaces the month's list by the new record.
group_transaction_overwrite(groups, t) ==
    IF IndexOfKey(groups, month_key(t)) = 0
    THEN Append(groups, [key |-> month_key(t), ts |-> << t >>])
    ELSE [groups EXCEPT ![IndexOfKey(groups, month_key(t))].ts = << t >>]

\* One round of the grouping loop: ts = month_groups.get(key, []);
\* ts.append(t); month_groups[key] = ts.  A dict keeps insertion order.
group_transaction(groups, t) ==
    IF IndexOfKey(groups, month_key(t)) = 0
    THEN Append(groups, [key |-> month_key(t), ts |-> << t >>])
    ELSE [groups EXCEPT ![IndexOfKey(groups, month_key(t))].ts = Append(@, t)]

\* The grouping loop over all_transactions.
RECURSIVE group_by_month(_, _)
group_by_month(groups, all) ==
    IF all = << >> THEN groups
    ELSE group_by_month(group_transaction(groups, Head(all)), Tail(all))

\* Insertion of t behind every record whose date is <= t's.
RECURSIVE InsertByDate(_, _)
InsertByDate(ts, t) ==
    IF ts = << >> THEN << t >>
    ELSE IF StrLeq(Head(ts).date, t.date)
         THEN << Head(ts) >> \o InsertByDate(Tail(ts), t)
         ELSE << t >> \o ts

RECURSIVE StableSort(_, _)
StableSort(done, ts) ==
    IF ts = << >> THEN done
    ELSE StableSort(InsertByDate(done, Head(ts)), Tail(ts))

\* A sorted_by_date that leaves the list as it is.
not_sorted(ts) == ts

\* sorted(ts, key=lambda k: k['date']): ascending, stable.
sorted_by_date(ts) == StableSort(<< >>, ts)

\* ------------------------------------------------------------ run_parsers

\* Finite sequences over S of length lo..hi.
SeqsOf(S, lo, hi) == UNION { [1..n -> S] : n \in lo..hi }

\* raise ValueError(f'No parser returned transactions for {pdf_path}!')
NoParserError(pdf_path) ==
    [kind |-> "ValueError", msg |-> "No parser returned transactions",
     path |-> Some(pdf_path)]

\* An exception of a parser that leaves run_parsers.
ParserError(kind, where) == [kind |-> kind, msg |-> where, path |-> Nothing]

\* run_parsers with its clear_cache parameter not overridden by only_text.
clear_cache_as_passed == arg_clear_cache

\* if only_text: use_cache=True; clear_cache=True
use_cache == IF only_text THEN TRUE ELSE arg_use_cache
clear_cache == IF only_text THEN TRUE ELSE arg_clear_cache

\* A handler that catches every exception.
CaughtAll(exc) == TRUE

\* A handler that catches nothing.
CaughtNone(exc) == FALSE

\* except ValueError as e: the kinds the handler of the parser loop catches.
Caught(exc) == exc = "ValueError"

\* on_transactions without its break.
on_transactions_no_break(transactions, found, all) ==
    IF transactions # << >>
    THEN [found |-> TRUE, all |-> all \o transactions, brk |-> FALSE]
    ELSE [found |-> found, all |-> all, brk |-> FALSE]

\* if transactions: found_parser = True;
\* all_transactions.extend(transactions); break -- else: try the next parser.
on_transactions(transactions, found, all) ==
    IF transactions # << >>
    THEN [found |-> TRUE, all |-> all \o transactions, brk |-> TRUE]
    ELSE [found |-> found, all |-> all, brk |-> FALSE]

\* A test of the text that lets every text pass.
has_text_always(text) == TRUE

\* if text: the text get_text returned is neither None nor empty.
has_text(text) == text # << >>

\* A text-only test that is never taken.
stops_at_text_never(only) == FALSE

\* if only_text: break
stops_at_text(only) == only

\* A check after the parser loop that never raises.
no_parser_matched_never(found) == FALSE

\* if not found_parser: raise ValueError(...)
no_parser_matched(found) == ~found

InitRun ==
    /\ statement_paths \in SeqsOf(Docs, 0, MaxDocs)
    /\ parsers \in SeqsOf(ParserKinds, 0, MaxParsers)
    /\ arg_use_cache \in BOOLEAN
    /\ arg_clear_cache \in BOOLEAN
    /\ only_text \in BOOLEAN
    /\ argv = Nothing
    /\ pc = IF statement_paths = << >> THEN "group" ELSE "parsers"
    /\ docIdx = 1
    /\ parserIdx = 1
    /\ found_parser = FALSE
    /\ all_transactions = << >>
    /\ month_groups = << >>
    /\ writeIdx = 1
    /\ output = << >>
    /\ raised = NoError
    /\ calls = << >>
    /\ to_text_calls = 0
    /\ triedDoc = 0
    /\ tried = << >>
    /\ matched = 0
    /\ committed = << >>

Init == InitFs /\ InitRun /\ last = NoOp

pdf_path == statement_paths[docIdx]

\* The parser loop of the current document is left (by break or at its end)
\* with the given values of found_parser and all_transactions: the check of
\* found_parser, then the next document or the end of the document loop.
LeaveParserLoop(found, all) ==
    IF no_parser_matched(found)
    THEN /\ pc' = "raised"
         /\ raised' = NoParserError(pdf_path)
         /\ found_parser' = found
         /\ all_transactions' = all
         /\ UNCHANGED << docIdx, parserIdx >>
    ELSE /\ raised' = raised
         /\ all_transactions' = all
         /\ docIdx' = docIdx + 1
         /\ parserIdx' = 1
         /\ IF docIdx < Len(statement_paths)
            THEN pc' = "parsers" /\ found_parser' = FALSE
            ELSE pc' = "group" /\ found_parser' = found

\* The current parser is done without a break and without an exception
\* leaving the loop: the next parser, or the end of the parser loop.
NextParser(found, all) ==
    IF parserIdx < Len(parsers)
    THEN /\ parserIdx' = parserIdx + 1
         /\ found_parser' = found
         /\ all_transactions' = all
         /\ UNCHANGED << pc, docIdx, raised >>
    ELSE LeaveParserLoop(found, all)

\* An exception of kind exc is raised inside the try block.
Raise(exc, where) ==
    IF Caught(exc)
    THEN NextParser(found_parser, all_transactions)
    ELSE /\ pc' = "raised"
         /\ raised' = ParserError(exc, where)
         /\ UNCHANGED << docIdx, parserIdx, found_parser, all_transactions >>

\* The history of one round of the parser loop of the current document.
Call(op, result) ==
    [doc |-> docIdx, parser |-> parserIdx, op |-> op, result |-> result]

Result(exc, value) ==
    IF exc # "" THEN exc ELSE IF value = << >> THEN "empty" ELSE "nonempty"

\* tried and matched restart with the first round of each document.
TriedSoFar == IF triedDoc = docIdx THEN tried ELSE << >>
MatchedSoFar == IF triedDoc = docIdx THEN matched ELSE 0

\* One round of the parser loop for the current document.  conv is what the
\* parser's to_text does if it is called; what its to_transactions does, if
\* it is called, is chosen among ToTransactionsOutcomes.
TryParser(conv) ==
    /\ pc = "parsers"
    /\ parserIdx <= Len(parsers)
    /\ LET kind == parsers[parserIdx]
           r == get_text(kind, cache, pdf_path, use_cache, clear_cache, conv, clock)
           got == Call("get_text", Result(r.raised, r.text))
       IN  /\ cache' = r.fs
           /\ triedDoc' = docIdx
           /\ tried' = Append(TriedSoFar, parserIdx)
           /\ to_text_calls' = r.to_text_calls
           /\ IF r.raised # ""
              THEN /\ calls' = << got >>
                   /\ matched' = MatchedSoFar
                   /\ committed' = committed
                   /\ Raise(r.raised, "get_text")
              ELSE IF ~has_text(r.text)
              THEN /\ calls' = << got >>
                   /\ matched' = MatchedSoFar
                   /\ committed' = committed
                   /\ NextParser(found_parser, all_transactions)
              ELSE IF stops_at_text(only_text)
              THEN /\ calls' = << got >>
                   /\ matched' = MatchedSoFar
                   /\ committed' = committed
                   /\ LeaveParserLoop(found_parser, all_transactions)
              ELSE \E txo \in ToTransactionsOutcomes(kind) :
                   LET step == on_transactions(txo.txs, found_parser, all_transactions)
                   IN  /\ calls' = << got, Call("to_transactions",
                                                Result(IF txo.kind = "ok" THEN ""
                                                       ELSE txo.kind, txo.txs)) >>
                       /\ IF txo.kind # "ok"
                          THEN /\ matched' = MatchedSoFar
                               /\ committed' = committed
                               /\ Raise(txo.kind, "to_transactions")
                          ELSE /\ matched' = IF txo.txs # << >> /\ MatchedSoFar = 0
                                             THEN parserIdx ELSE MatchedSoFar
                               /\ committed' = IF txo.txs = << >> THEN committed
                                               ELSE Append(committed, txo.txs)
                               /\ IF step.brk
                                  THEN LeaveParserLoop(step.found, step.all)
                                  ELSE NextParser(step.found, step.all)
    /\ UNCHANGED << docMtime, clock, last, statement_paths, parsers, arg_use_cache,
                    arg_clear_cache, only_text, argv, month_groups, writeIdx,
                    output >>

\* The parser loop of the current document with an empty parser list.
NoParsers ==
    /\ pc = "parsers"
    /\ parsers = << >>
    /\ LeaveParserLoop(found_parser, all_transactions)
    /\ UNCHANGED << cache, docMtime, clock, last, statement_paths, parsers,
                    arg_use_cache, arg_clear_cache, only_text, argv, month_groups,
                    writeIdx, output, calls, to_text_calls, triedDoc, tried,
                    matched, committed >>

\* After the document loop: the grouping loop.
GroupTransactions ==
    /\ pc = "group"
    /\ month_groups' = group_by_month(<< >>, all_transactions)
    /\ writeIdx' = 1
    /\ pc' = IF month_groups' = << >> THEN "done" ELSE "write"
    /\ UNCHANGED << cache, docMtime, clock, last, statement_paths, parsers,
                    arg_use_cache, arg_clear_cache, only_text, argv, docIdx, parserIdx,
                    found_parser, all_transactions, output, raised, calls,
                    to_text_calls, triedDoc, tried, matched, committed >>

\* One round of the writing loop: output_file.write_text(json.dumps(sorted
\* ts)); the file <mo>-transactions.json then holds these records in this
\* order, whatever it held before.
WriteMonth ==
    /\ pc = "write"
    /\ output' = (month_groups[writeIdx].key :> sorted_by_date(month_groups[writeIdx].ts))
                     @@ output
    /\ writeIdx' = writeIdx + 1
    /\ pc' = IF writeIdx < Len(month_groups) THEN "write" ELSE "done"
    /\ UNCHANGED << cache, docMtime, clock, last, statement_paths, parsers,
                    arg_use_cache, arg_clear_cache, only_text, argv, docIdx, parserIdx,
                    found_parser, all_transactions, month_groups, raised, calls,
                    to_text_calls, triedDoc, tried, matched, committed >>

Next ==
    \/ \E conv \in ToTextOutcomes : TryParser(conv)
    \/ NoParsers
    \/ GroupTransactions
    \/ WriteMonth

Spec == Init /\ [][Next]_vars

\* ----------------------------------------------------------------- main

\* The flags --no-cache, --clear-cache and --pdf-to-text (store_true).
Args == [no_cache : BOOLEAN, clear_cache : BOOLEAN, pdf_to_text : BOOLEAN]

\* A wiring that passes use_cache=True whatever the flags.
main_use_cache_always(args) == TRUE

\* main: use_cache=not args.no_cache
main_use_cache(args) == ~args.no_cache

\* main: clear_cache=(args.no_cache or args.clear_cache)
main_clear_cache(args) == args.no_cache \/ args.clear_cache

\* main: only_text=args.pdf_to_text
main_only_text(args) == args.pdf_to_text

\* The text an earlier run left in the cache files: a text of an earlier
\* version of each document, which no conversion gives now.
EarlierText == << "e" >>

\* The directory as main finds it: no cache file, or the cache files of an
\* earlier run over the documents.
InitMainFs ==
    /\ \E earlier \in BOOLEAN :
          cache = [f \in CacheFiles |->
                     IF earlier THEN Some(write_text(EarlierText, 0)) ELSE Nothing]
    /\ docMtime = [d \in Docs |-> 0]
    /\ clock = 0

\* main calls run_parsers: statement_paths has nargs='+', so at least one
\* path; the parsers are those of the configuration, of the classes whose
\* hooks differ; the three flags of run_parsers come from the command line.
InitMain ==
    /\ InitMainFs
    /\ last = NoOp
    /\ \E args \in Args :
          /\ argv = Some(args)
          /\ arg_use_cache = main_use_cache(args)
          /\ arg_clear_cache = main_clear_cache(args)
          /\ only_text = main_only_text(args)
    /\ statement_paths \in SeqsOf(Docs, 1, MaxDocs)
    /\ parsers \in SeqsOf(CacheKinds, 0, MaxParsers)
    /\ pc = "parsers"
    /\ docIdx = 1
    /\ parserIdx = 1
    /\ found_parser = FALSE
    /\ all_transactions = << >>
    /\ month_groups = << >>
    /\ writeIdx = 1
    /\ output = << >>
    /\ raised = NoError
    /\ calls = << >>
    /\ to_text_calls = 0
    /\ triedDoc = 0
    /\ tried = << >>
    /\ matched = 0
    /\ committed = << >>

SpecMain == InitMain /\ [][Next]_vars

\* ------------------------------------------------- the claims: text cache

\* The last operation was get_text on a parser class with a cache.
CachedGetText == last.op = "get_text" /\ HasCache(last.kind)

\* C4 (as claimed): after write_cache(document, text), a call
\* get_text(document, use_cache=true, clear_cache=false) with the document's
\* mtime unchanged returns exactly that text and does not call to_text.
C4_CacheRoundTrip ==
    (CachedGetText /\ last.use_cache /\ ~last.clear_cache
        /\ last.prior # Nothing /\ ~last.stale)
    => /\ last.raised = ""
       /\ last.text = last.prior[1]
       /\ last.to_text_calls = 0

\* C5 (as claimed): when the document is newer than its cached text,
\* get_text(use_cache=true, clear_cache=false) does not take the text from
\* the cache: it calls to_text again.
C5_StaleCacheIsNotRead ==
    (CachedGetText /\ last.use_cache /\ ~last.clear_cache /\ last.stale)
    => /\ ~last.from_cache
       /\ last.to_text_calls = 1

\* C6: every get_text call with clear_cache=true calls to_text exactly once,
\* whatever the cache held and whatever use_cache is, and what it returns
\* does not come from the cache; no cache file written before the call is
\* left behind unless this call wrote it.
C6_ClearCacheAlwaysConverts ==
    (last.op = "get_text" /\ last.clear_cache)
    => /\ last.to_text_calls = 1
       /\ ~last.from_cache
       /\ (HasCache(last.kind) /\ last.write_calls = 0
             => cache[cached_text_file(last.doc)] = Nothing)

\* C6, witness: a clear_cache call that found a cached text and converted.
C6_Witness ==
    /\ CachedGetText /\ last.clear_cache /\ last.use_cache
    /\ last.prior # Nothing /\ last.prior[1] # << >>
    /\ last.to_text_calls = 1 /\ last.raised = ""

\* ------------------------------------------------ the claims: run_parsers

\* C1: for each document the parsers are asked in list order, each at most
\* once, and once a parser's to_transactions has returned a non-empty
\* sequence no later parser is asked for text or transactions.
C1_ParsersInOrderUntilFirstMatch ==
    /\ Len(tried) <= Len(parsers)
    /\ \A i \in 1..Len(tried) : tried[i] = i
    /\ triedDoc <= docIdx
    /\ matched # 0 => tried # << >> /\ tried[Len(tried)] = matched
    /\ \A i \in 1..Len(calls) :
          calls[i].doc = triedDoc /\ calls[i].parser = tried[Len(tried)]
    /\ Len(calls) = 2 => calls[1].op = "get_text" /\ calls[2].op = "to_transactions"

\* C1, witness: the first of two parsers matched and the second was not asked.
C1_Witness ==
    /\ matched = 1 /\ tried = << 1 >> /\ Len(parsers) = 2
    /\ Len(calls) = 2 /\ calls[2].result = "nonempty"

\* Whether the last round's to_transactions call ended as given.
ToTransactionsEnded(result) == Len(calls) = 2 /\ calls[2].result = result

\* C2: a ValueError of to_transactions does not abort the run: the pipeline
\* goes on to the next parser for the same document, and when that parser
\* returns transactions they are accumulated and the run goes on to the next
\* document.
C2_ValueErrorTriesNextParser ==
    /\ [](ToTransactionsEnded("ValueError")
            => /\ raised.msg # "to_transactions"
               /\ IF calls[2].parser < Len(parsers)
                  THEN /\ pc = "parsers" /\ raised = NoError
                       /\ docIdx = calls[2].doc
                       /\ parserIdx = calls[2].parser + 1
                  ELSE /\ pc = "raised"
                       /\ raised = NoParserError(statement_paths[calls[2].doc]))
    /\ [][(/\ pc = "parsers" /\ ToTransactionsEnded("ValueError")
           /\ calls[2].doc = docIdx
           /\ Len(calls') = 2 /\ calls'[2].result = "nonempty")
          => /\ calls'[2].doc = docIdx /\ calls'[2].parser = calls[2].parser + 1
             /\ Len(committed') = Len(committed) + 1
             /\ all_transactions' = all_transactions \o committed'[Len(committed')]
             /\ raised' = NoError
             /\ docIdx' = docIdx + 1
             /\ pc' = IF docIdx < Len(statement_paths) THEN "parsers" ELSE "group"]_vars

\* C2, witness: PdfTestParser, whose to_transactions raises ValueError, has
\* converted the first document and filled the cache; the second parser has
\* read that text from the cache and returned transactions.
C2_Witness ==
    /\ parsers = << "PdfTestParser", "PdfParser" >>
    /\ ~only_text /\ arg_use_cache /\ ~arg_clear_cache
    /\ triedDoc = 1 /\ tried = << 1, 2 >> /\ matched = 2
    /\ to_text_calls = 0
    /\ ToTransactionsEnded("nonempty")
    /\ all_transactions = committed[1]

\* C3: a document for which no parser returns transactions ends the run in
\* the 'no parser' ValueError naming it: the document loop never goes past a
\* document without a match, and no later document is processed.
C3_NoMatchIsFatal ==
    /\ pc \in {"parsers", "raised"} => Len(committed) = docIdx - 1
    /\ pc \in {"group", "write", "done"} => Len(committed) = Len(statement_paths)
    /\ pc = "parsers" /\ triedDoc = docIdx
          => matched = 0 /\ Len(tried) < Len(parsers)
    /\ pc = "raised" /\ raised.kind = "ValueError"
          => /\ raised = NoParserError(statement_paths[docIdx])
             /\ matched = 0 \/ triedDoc # docIdx
    /\ pc = "raised" => triedDoc <= docIdx /\ output = << >>

\* C3, witness: both parsers failed for the first of two documents.
C3_Witness ==
    /\ pc = "raised" /\ raised = NoParserError(statement_paths[1])
    /\ docIdx = 1 /\ Len(statement_paths) = 2
    /\ triedDoc = 1 /\ tried = << 1, 2 >> /\ ~only_text

\* s[:n]
Prefix(str, n) == IF Len(str) <= n THEN str ELSE SubSeq(str, 1, n)

\* C7 (as claimed): the month key of every transaction is the first 7
\* characters of its date, whatever the length of the date.
C7_KeyIsFirstSevenCharacters ==
    \A i \in 1..Len(month_groups) :
       \A j \in 1..Len(month_groups[i].ts) :
          month_groups[i].key = Prefix(month_groups[i].ts[j].date, 7)

RECURSIVE Concat(_)
Concat(seqs) == IF seqs = << >> THEN << >> ELSE Head(seqs) \o Concat(Tail(seqs))

\* The records of all month files.
RECURSIVE RecordsOf(_, _)
RecordsOf(files, keys) ==
    IF keys = {} THEN << >>
    ELSE LET k == CHOOSE x \in keys : TRUE
         IN  files[k] \o RecordsOf(files, keys \ {k})

Count(seq, x) == Cardinality({ i \in 1..Len(seq) : seq[i] = x })

SameBag(a, b) ==
    /\ Len(a) = Len(b)
    /\ \A i \in 1..Len(a) : Count(a, a[i]) = Count(b, a[i])

\* C8: after a run that completes, the month files partition what the
\* committed parsers returned: the same records with the same
\* multiplicities, each in the file of its own month key, no file empty.
C8_MonthFilesPartitionTransactions ==
    pc = "done"
    => /\ SameBag(RecordsOf(output, DOMAIN output), Concat(committed))
       /\ \A k \in DOMAIN output :
             /\ output[k] # << >>
             /\ \A i \in 1..Len(output[k]) : month_key(output[k][i]) = k

\* C8, witness: two documents were matched, a record occurs in both, and
\* more than one month file was written.
C8_Witness ==
    /\ pc = "done"
    /\ committed = << Statement1, Statement2 >>
    /\ Cardinality(DOMAIN output) >= 2
    /\ Count(RecordsOf(output, DOMAIN output), Txn(D_2023_04_01, "10.00")) = 2

\* C9: in every month file the records are in ascending order of the date
\* string.
C9_MonthFilesSortedByDate ==
    \A k \in DOMAIN output :
       \A i \in 1..(Len(output[k]) - 1) :
          StrLeq(output[k][i].date, output[k][i + 1].date)

\* C9, witness: a month file whose records were accumulated out of order.
C9_Witness ==
    \E i \in 1..Len(month_groups) :
       /\ month_groups[i].key \in DOMAIN output
       /\ Len(month_groups[i].ts) >= 2
       /\ output[month_groups[i].key] # month_groups[i].ts

\* Whether the last round's get_text call ended as given.
GetTextEnded(result) == calls # << >> /\ calls[1].result = result

\* C10 (as claimed): an error of any kind raised in get_text, ValueError
\* included, leaves run_parsers and ends the run.
C10_ConversionErrorsAbort ==
    \A exc \in {"ValueError", "Error"} :
       GetTextEnded(exc) => pc = "raised" /\ raised = ParserError(exc, "get_text")

\* C10 (amended): an error raised in get_text of a kind other than
\* ValueError leaves run_parsers and ends the run: no later parser is tried,
\* no later document processed, nothing written.  A ValueError raised in
\* get_text is caught like one of to_transactions: the next parser is tried,
\* and after the last parser the run ends in the 'no parser' error.
C10_UncaughtConversionErrorsAbort ==
    /\ GetTextEnded("Error")
          => /\ pc = "raised" /\ raised = ParserError("Error", "get_text")
             /\ docIdx = calls[1].doc /\ parserIdx = calls[1].parser
             /\ triedDoc = docIdx /\ tried[Len(tried)] = parserIdx
             /\ output = << >>
    /\ GetTextEnded("ValueError")
          => IF calls[1].parser < Len(parsers)
             THEN /\ pc = "parsers" /\ raised = NoError
                  /\ docIdx = calls[1].doc /\ parserIdx = calls[1].parser + 1
             ELSE /\ pc = "raised"
                  /\ raised = NoParserError(statement_paths[calls[1].doc])

\* C10, witness: the first parser's conversion of the first document failed
\* with another kind than ValueError; a parser and a document were left.
C10_Witness ==
    /\ GetTextEnded("Error") /\ pc = "raised"
    /\ docIdx = 1 /\ parserIdx = 1
    /\ Len(parsers) = 2 /\ Len(statement_paths) = 2

\* C11: a failure of to_transactions of another kind than ValueError is not
\* caught: the run ends with it at once, no later parser is tried for the
\* document, no later document is processed and no file is written.
C11_OtherParseErrorsAbort ==
    ToTransactionsEnded("Error")
    => /\ pc = "raised" /\ raised = ParserError("Error", "to_transactions")
       /\ docIdx = calls[2].doc /\ parserIdx = calls[2].parser
       /\ triedDoc = docIdx /\ tried[Len(tried)] = parserIdx
       /\ matched = 0
       /\ Len(committed) = docIdx - 1
       /\ output = << >>

\* C11, witness: to_transactions of the first parser failed for the second
\* document, after the first document had yielded transactions; a parser
\* was left.
C11_Witness ==
    /\ ToTransactionsEnded("Error") /\ pc = "raised"
    /\ docIdx = 2 /\ parserIdx = 1 /\ Len(parsers) = 2
    /\ all_transactions # << >>

\* C12: in text-only mode to_transactions is never called, and for each
\* document the parser loop is left at the first parser whose text is not
\* empty.
C12_TextOnlyNeverParses ==
    only_text
    => /\ Len(calls) <= 1
       /\ \A i \in 1..Len(calls) : calls[i].op = "get_text"
       /\ committed = << >> /\ all_transactions = << >> /\ matched = 0
       /\ GetTextEnded("nonempty")
             => /\ pc # "parsers"
                /\ docIdx = calls[1].doc /\ parserIdx = calls[1].parser
                /\ tried[Len(tried)] = parserIdx

\* C12, witness: text-only mode; the first of two parsers returned a text.
C12_Witness ==
    /\ only_text /\ GetTextEnded("nonempty")
    /\ tried = << 1 >> /\ Len(parsers) = 2 /\ pc = "raised"

C16_EmptyTextIsNotParsed ==
    /\ Len(calls) = 2 => calls[1].result = "nonempty"
    /\ GetTextEnded("empty")
          => /\ Len(calls) = 1
             /\ IF calls[1].parser < Len(parsers)
                THEN /\ pc = "parsers" /\ raised = NoError
                     /\ docIdx = calls[1].doc /\ parserIdx = calls[1].parser + 1
                ELSE /\ pc = "raised"
                     /\ raised = NoParserError(statement_paths[calls[1].doc])

\* C16, witness: the first parser returned an empty text and the second
\* parser is next.
C16_Witness ==
    /\ GetTextEnded("empty") /\ ~only_text
    /\ pc = "parsers" /\ parserIdx = 2 /\ tried = << 1 >>

\* C13: delete_cache raises nothing, leaves the cache of its document
\* absent, done twice leaves what once leaves, and never changes the cached
\* text of another document.
C13_DeleteCacheIsLocal ==
    [][ last'.op = "delete_cache"
        => /\ read_cache(last'.kind, cache', last'.doc) = Nothing
           /\ delete_cache(last'.kind, cache', last'.doc) = cache'
           /\ \A d2 \in StemDocs \ { last'.doc } :
                 read_cache(last'.kind, cache', d2) = read_cache(last'.kind, cache, d2)
      ]_vars

\* C15: get_text calls write_cache exactly when the text it returns is not
\* empty, use_cache is true and the text came from to_text; the written file
\* then holds that text, otherwise the cache is what delete_cache left (or
\* what it was, without clear_cache); with use_cache and clear_cache both
\* false the cache is unchanged; to_text runs at most once in a call.
C15_WritesCacheExactlyWhenConverted ==
    /\ [](last.op = "get_text"
          => /\ last.write_calls = 1
                   <=> /\ last.raised = "" /\ last.text # << >>
                       /\ last.use_cache /\ ~last.from_cache
             /\ last.write_calls \in {0, 1}
             /\ last.to_text_calls \in {0, 1}
             /\ last.from_cache <=> last.to_text_calls = 0)
    /\ [][ last'.op = "get_text"
           => /\ (last'.write_calls = 1 /\ HasCache(last'.kind))
                    => cache' = [cache EXCEPT ![cached_text_file(last'.doc)] =
                                     Some([text |-> last'.text, mtime |-> clock])]
              /\ last'.write_calls = 0
                    => cache' = IF last'.clear_cache
                                THEN delete_cache(last'.kind, cache, last'.doc)
                                ELSE cache
              /\ (~last'.use_cache /\ ~last'.clear_cache) => cache' = cache
         ]_vars

\* C15, witness: a get_text call with use_cache converted a document whose
\* cache file held another text, and wrote the cache.
C15_Witness ==
    /\ last.op = "get_text" /\ HasCache(last.kind)
    /\ last.use_cache /\ last.clear_cache
    /\ last.prior # Nothing /\ last.prior # Some(last.text)
    /\ last.write_calls = 1 /\ last.to_text_calls = 1
    /\ PriorText(cache, last.doc) = Some(last.text)

\* C18: with use_cache true and clear_cache false, after one cache-backed
\* parser has converted a document to a non-empty text and written it, the
\* next cache-backed get_text for that document returns that same text
\* without calling to_text.
C18_CacheIsSharedByParsers ==
    [][ ( /\ last.op = "get_text" /\ HasCache(last.kind)
          /\ last.use_cache /\ ~last.clear_cache
          /\ last.to_text_calls = 1 /\ last.write_calls = 1
          /\ last'.op = "get_text" /\ HasCache(last'.kind)
          /\ last'.doc = last.doc
          /\ last'.use_cache /\ ~last'.clear_cache )
        => /\ last'.to_text_calls = 0
           /\ last'.raised = ""
           /\ last'.text = last.text
      ]_vars

\* ------------------------------------------- the claims: the command line

\* The cache after a round of the parser loop whose get_text removed the
\* cache file of the current document and wrote nothing.
CacheRemoved == [cache EXCEPT ![cached_text_file(pdf_path)] = Nothing]

\* The caches after a round whose get_text wrote a non-empty text of the
\* conversion to the cache file of the current document.
CachesRewritten ==
    { [cache EXCEPT ![cached_text_file(pdf_path)] = Some(write_text(t, clock))] :
        t \in Texts \ { << >> } }

\* A round of the parser loop (the step of TryParser) with a parser class
\* that has a cache.
CachedRound == calls' # calls /\ HasCache(parsers[parserIdx])

\* get_text of the round converted the document, removed its cached text
\* and wrote back the converted text if that is not empty.
RoundRewritesCache ==
    /\ to_text_calls' = 1
    /\ IF calls'[1].result = "nonempty"
       THEN cache' \in CachesRewritten
       ELSE cache' = CacheRemoved

====
